---- MODULE Spec2Model ----
(***************************************************************************)
(* Model of the Infineon PDL flash driver                                  *)
(* (drivers/flash/flash_infineon_pdl.c): the read, write and erase         *)
(* handlers, their offset/length/alignment validation and the row loops    *)
(* that call the vendor primitive Cy_Flash_WriteRow.                       *)
(*                                                                         *)
(* The target is a 32-bit MCU: uint32_t, size_t and uintptr_t are 32 bits  *)
(* wide, off_t is a signed 32-bit integer and the devicetree address and   *)
(* size macros are 32-bit unsigned constants.  A uint32_t value is the     *)
(* pair <<hi, lo>> of its 16-bit halves, so that all address arithmetic is *)
(* carried out modulo 2^32 exactly as the C code does it.                  *)
(***************************************************************************)
EXTENDS Integers, Sequences, FiniteSets

VARIABLES cfg, mem, last, prev

vars == <<cfg, mem, last, prev>>

(***************************************************************************)
(* Bounds of the model.                                                    *)
(***************************************************************************)
\* Longest block-aligned request, in blocks, and the latest primitive
\* invocation of a call that the environment may make fail.
MaxRows == 2

(***************************************************************************)
(* uint32_t arithmetic.                                                    *)
(***************************************************************************)
Half == 2 ^ 16

\* A natural number below 2^31 as a uint32_t.
U32(n) == <<n \div Half, n % Half>>

Zero == <<0, 0>>

\* a + b, a - b modulo 2^32.
U32Add(a, b) ==
    LET lo == a[2] + b[2]
        hi == a[1] + b[1] + (lo \div Half)
    IN  <<hi % Half, lo % Half>>

U32Sub(a, b) ==
    LET lo == a[2] - b[2]
        hi == a[1] - b[1] - (IF lo < 0 THEN 1 ELSE 0)
    IN  <<hi % Half, lo % Half>>

\* a < b, unsigned.
U32Lt(a, b) == a[1] < b[1] \/ (a[1] = b[1] /\ a[2] < b[2])

\* a % r for a row length r (0 < r < 2^15).
U32Mod(a, r) == (((a[1] % r) * (Half % r)) + (a[2] % r)) % r

\* The conversion of an off_t to uint32_t that the usual arithmetic
\* conversions apply when an off_t meets a uint32_t operand: a negative
\* offset becomes 2^32 + offset.
OffToU32(offset) ==
    IF offset >= 0
    THEN U32(offset)
    ELSE LET n == -(offset + 1)
         IN  <<(Half - 1) - (n \div Half), (Half - 1) - (n % Half)>>

(***************************************************************************)
(* Return codes.                                                           *)
(***************************************************************************)
EINVAL == -22
EIO == -5

\* flash_parameters.erase_value
erase_value == 255

(***************************************************************************)
(* The devicetree values of the flash node (IFX_FLASH_BASE,                *)
(* IFX_FLASH_SIZE, write_block_size, erase_block_size), 32-bit unsigned.   *)
(* write_block_size is the row that Cy_Flash_WriteRow programs and a       *)
(* multiple of 4 (the comment at lines 77-80 of the driver and the page    *)
(* layout, whose page is write_block_size); the model takes                *)
(* erase_block_size to be that row or a multiple of it, and the region to  *)
(* be a whole number of erase blocks.                                      *)
(***************************************************************************)
DevicetreeRegions ==
    { \* [0x1000, 0x1008): two rows, erase block = row
      [base |-> <<0, 4096>>, size |-> <<0, 8>>,
       write_block_size |-> 4, erase_block_size |-> 4],
      \* [0xFFFFFFF4, 0xFFFFFFFC): the highest region of two rows that builds
      [base |-> <<65535, 65524>>, size |-> <<0, 8>>,
       write_block_size |-> 4, erase_block_size |-> 4],
      \* [0xFFFFFFF8, 2^32): base + size wraps to 0
      [base |-> <<65535, 65528>>, size |-> <<0, 8>>,
       write_block_size |-> 4, erase_block_size |-> 4],
      \* [0x2000, 0x2010): four rows, erase block of two rows
      [base |-> <<0, 8192>>, size |-> <<0, 16>>,
       write_block_size |-> 4, erase_block_size |-> 8],
      \* [0x3000, 0x3010): two rows of 8 bytes, erase block = row
      [base |-> <<0, 12288>>, size |-> <<0, 16>>,
       write_block_size |-> 8, erase_block_size |-> 8] }

\* IFX_FLASH_MAX: IFX_FLASH_BASE + IFX_FLASH_SIZE, in 32-bit unsigned
\* arithmetic.
IFX_FLASH_MAX(d) == U32Add(d.base, d.size)

\* The two BUILD_ASSERTs: IFX_FLASH_SIZE > 0 and IFX_FLASH_MAX >
\* IFX_FLASH_BASE.  A region whose end wraps past 2^32 does not build.
BuildAsserts(d) == U32Lt(Zero, d.size) /\ U32Lt(d.base, IFX_FLASH_MAX(d))

\* struct ifx_flash_config: ifx_flash_config_parameters of every devicetree
\* that builds.
ifx_flash_config ==
    { [base_addr |-> d.base, max_addr |-> IFX_FLASH_MAX(d),
       write_block_size |-> d.write_block_size,
       erase_block_size |-> d.erase_block_size] :
          d \in {x \in DevicetreeRegions : BuildAsserts(x)} }

\* flash_ifx_get_size: max_addr - base_addr.
flash_ifx_get_size(c) == U32Sub(c.max_addr, c.base_addr)

\* The region size as a number (the regions of the model are small).
RegionSize(c) == flash_ifx_get_size(c)[2]

\* Flash contents before the first call: byte i of the region holds 0x10 + i.
InitMem(c) == [i \in 0 .. RegionSize(c) - 1 |-> 16 + i]

(***************************************************************************)
(* The memory-mapped flash and the vendor primitive.                       *)
(***************************************************************************)
\* The value of a read of an address outside the region.
Unmapped == -1

\* The byte at absolute address a.
FlashByte(c, m, a) ==
    LET rel == U32Sub(a, c.base_addr)
    IN  IF rel[1] = 0 /\ rel[2] < RegionSize(c) THEN m[rel[2]] ELSE Unmapped

\* The flash after one hardware row (write_block_size bytes) taken from the
\* start of buf has been programmed at address a.
ProgramRow(c, m, a, buf) ==
    [i \in DOMAIN m |->
        LET j == U32Sub(U32Add(c.base_addr, U32(i)), a)
        IN  IF j[1] = 0 /\ j[2] < c.write_block_size THEN buf[j[2] + 1] ELSE m[i]]

\* What the environment does to the primitive during one call: failAt = 0,
\* every invocation succeeds; failAt = n, the n-th invocation of the call
\* reports failure, having programmed its row or left it untouched.
NoFail == [failAt |-> 0, effect |-> "none"]

FailPlans ==
    {NoFail} \cup [failAt : 1 .. MaxRows, effect : {"untouched", "programmed"}]

\* Cy_Flash_WriteRow(a, buf), the n-th invocation of the call.
Cy_Flash_WriteRow(c, m, a, buf, n, env) ==
    IF env.failAt = n
    THEN [ok |-> FALSE,
          mem |-> IF env.effect = "programmed" THEN ProgramRow(c, m, a, buf) ELSE m]
    ELSE [ok |-> TRUE, mem |-> ProgramRow(c, m, a, buf)]

(***************************************************************************)
(* The caller's source buffer: byte i is (seed + i * step) % 256, and      *)
(* align is the low two bits of the pointer.                               *)
(***************************************************************************)
SrcByte(src, i) == (src.seed + i * src.step) % 256

\* The n bytes at src_ptr = data + p.
SrcBytes(src, p, n) == [k \in 1 .. n |-> SrcByte(src, p + k - 1)]

(***************************************************************************)
(* flash_ifx_write                                                         *)
(***************************************************************************)
\* Mutant: the zero-length early return is missing.
IsZeroLen_missing(len) == FALSE

\* remaining_len == 0 / size == 0
IsZeroLen(len) == len = Zero

\* Mutant: only the length is tested for alignment.
WriteMisaligned_lenonly(c, offset, remaining_len) ==
    U32Mod(remaining_len, c.write_block_size) # 0

\* ((offset % row_len) != 0) || ((remaining_len % row_len) != 0)
WriteMisaligned(c, offset, remaining_len) ==
    \/ U32Mod(OffToU32(offset), c.write_block_size) # 0
    \/ U32Mod(remaining_len, c.write_block_size) # 0

\* (cfg->max_addr - cfg->base_addr) < offset
WriteOffsetBeyond(c, offset) ==
    U32Lt(U32Sub(c.max_addr, c.base_addr), OffToU32(offset))

\* Mutant: the length is compared with the whole span, not with what is
\* left of it after write_offset.
WriteLenBeyond_span(c, write_offset, remaining_len) ==
    U32Lt(U32Sub(c.max_addr, c.base_addr), remaining_len)

\* (cfg->max_addr - write_offset) < remaining_len
WriteLenBeyond(c, write_offset, remaining_len) ==
    U32Lt(U32Sub(c.max_addr, write_offset), remaining_len)

\* Mutant: every row is staged from the start of the data, not from src_ptr.
StageRow_first(src, p, row_len) == SrcBytes(src, 0, row_len)

\* memcpy(row_buf, src_ptr, row_len)
StageRow(src, p, row_len) == SrcBytes(src, p, row_len)

\* Mutant: the destination address is not advanced.
NextRowAddr_stuck(a, row_len) == a

\* write_offset += row_len
NextRowAddr(a, row_len) == U32Add(a, U32(row_len))

\* The record of one invocation of the primitive.
Invocation(a, buf, align, ok) ==
    [addr |-> a, buf |-> buf, align |-> align, ok |-> ok]

\* The loop of the misaligned-source branch; p is src_ptr - data.
RECURSIVE WriteRowsStaged(_, _, _, _, _, _, _, _)
WriteRowsStaged(c, m, write_offset, src, p, remaining_len, env, calls) ==
    IF remaining_len = Zero
    THEN [ret |-> 0, mem |-> m, calls |-> calls]
    ELSE LET row_len == c.write_block_size
             row_buf == StageRow(src, p, row_len)
             st == Cy_Flash_WriteRow(c, m, write_offset, row_buf, Len(calls) + 1, env)
             calls2 == Append(calls, Invocation(write_offset, row_buf, 0, st.ok))
         IN  IF ~st.ok
             THEN [ret |-> EIO, mem |-> st.mem, calls |-> calls2]
             ELSE WriteRowsStaged(c, st.mem, NextRowAddr(write_offset, row_len),
                                  src, p + row_len,
                                  U32Sub(remaining_len, U32(row_len)), env, calls2)

\* The loop of the aligned-source branch: the primitive reads src_ptr itself.
RECURSIVE WriteRowsDirect(_, _, _, _, _, _, _, _)
WriteRowsDirect(c, m, write_offset, src, p, remaining_len, env, calls) ==
    IF remaining_len = Zero
    THEN [ret |-> 0, mem |-> m, calls |-> calls]
    ELSE LET row_len == c.write_block_size
             row == SrcBytes(src, p, row_len)
             st == Cy_Flash_WriteRow(c, m, write_offset, row, Len(calls) + 1, env)
             calls2 == Append(calls,
                              Invocation(write_offset, row, (src.align + p) % 4, st.ok))
         IN  IF ~st.ok
             THEN [ret |-> EIO, mem |-> st.mem, calls |-> calls2]
             ELSE WriteRowsDirect(c, st.mem, NextRowAddr(write_offset, row_len),
                                  src, p + row_len,
                                  U32Sub(remaining_len, U32(row_len)), env, calls2)

flash_ifx_write(c, m, offset, src, remaining_len, env) ==
    IF IsZeroLen(remaining_len) THEN [ret |-> 0, mem |-> m, calls |-> <<>>]
    ELSE IF offset < 0 THEN [ret |-> EINVAL, mem |-> m, calls |-> <<>>]
    ELSE IF WriteMisaligned(c, offset, remaining_len)
         THEN [ret |-> EINVAL, mem |-> m, calls |-> <<>>]
    ELSE IF WriteOffsetBeyond(c, offset) THEN [ret |-> EINVAL, mem |-> m, calls |-> <<>>]
    ELSE LET write_offset == U32Add(c.base_addr, OffToU32(offset))
         IN  IF WriteLenBeyond(c, write_offset, remaining_len)
             THEN [ret |-> EINVAL, mem |-> m, calls |-> <<>>]
             ELSE IF src.align # 0
                  THEN WriteRowsStaged(c, m, write_offset, src, 0, remaining_len, env, <<>>)
                  ELSE WriteRowsDirect(c, m, write_offset, src, 0, remaining_len, env, <<>>)

(***************************************************************************)
(* flash_ifx_read                                                          *)
(***************************************************************************)
\* Mutant: the sign test is missing and the span is compared as a signed
\* number.
ReadOffsetRejected_signed(c, offset) ==
    U32Sub(c.max_addr, c.base_addr)[1] = 0 /\ U32Sub(c.max_addr, c.base_addr)[2] < offset

\* offset < 0 || (cfg->max_addr - cfg->base_addr) < offset
ReadOffsetRejected(c, offset) ==
    offset < 0 \/ U32Lt(U32Sub(c.max_addr, c.base_addr), OffToU32(offset))

\* (cfg->max_addr - read_offset) < remaining_len
ReadLenBeyond(c, read_offset, remaining_len) ==
    U32Lt(U32Sub(c.max_addr, read_offset), remaining_len)

\* memcpy(data, (const void *)read_offset, remaining_len) into the caller's
\* buffer out.
ReadCopy(c, m, out, read_offset, remaining_len) ==
    [k \in DOMAIN out |->
        IF U32Lt(U32(k - 1), remaining_len)
        THEN FlashByte(c, m, U32Add(read_offset, U32(k - 1)))
        ELSE out[k]]

flash_ifx_read(c, m, offset, out, remaining_len) ==
    IF IsZeroLen(remaining_len) THEN [ret |-> 0, out |-> out]
    ELSE IF ReadOffsetRejected(c, offset) THEN [ret |-> EINVAL, out |-> out]
    ELSE LET read_offset == U32Add(c.base_addr, OffToU32(offset))
         IN  IF ReadLenBeyond(c, read_offset, remaining_len)
             THEN [ret |-> EINVAL, out |-> out]
             ELSE [ret |-> 0, out |-> ReadCopy(c, m, out, read_offset, remaining_len)]

(***************************************************************************)
(* flash_ifx_erase                                                         *)
(***************************************************************************)
\* (offset % row_len) != 0, then (size % row_len) != 0
EraseMisaligned(c, offset, size) ==
    \/ U32Mod(OffToU32(offset), c.erase_block_size) # 0
    \/ U32Mod(size, c.erase_block_size) # 0

\* offset < 0 || (cfg->max_addr - cfg->base_addr) < offset
EraseOffsetRejected(c, offset) ==
    offset < 0 \/ U32Lt(U32Sub(c.max_addr, c.base_addr), OffToU32(offset))

\* Mutant: the size is compared with the whole span.
EraseLenBeyond_span(c, erase_offset, size) ==
    U32Lt(U32Sub(c.max_addr, c.base_addr), size)

\* (cfg->max_addr - erase_offset) < size
EraseLenBeyond(c, erase_offset, size) ==
    U32Lt(U32Sub(c.max_addr, erase_offset), size)

\* memset((void *)row_buf, 0xFF, row_len)
EraseRowBuf(row_len) == [k \in 1 .. row_len |-> erase_value]

RECURSIVE EraseRows(_, _, _, _, _, _)
EraseRows(c, m, erase_offset, size, env, calls) ==
    IF size = Zero
    THEN [ret |-> 0, mem |-> m, calls |-> calls]
    ELSE LET row_len == c.erase_block_size
             row_buf == EraseRowBuf(row_len)
             st == Cy_Flash_WriteRow(c, m, erase_offset, row_buf, Len(calls) + 1, env)
             calls2 == Append(calls, Invocation(erase_offset, row_buf, 0, st.ok))
         IN  IF ~st.ok
             THEN [ret |-> EIO, mem |-> st.mem, calls |-> calls2]
             ELSE EraseRows(c, st.mem, NextRowAddr(erase_offset, row_len),
                            U32Sub(size, U32(row_len)), env, calls2)

\* Mutant: the size is not checked before the loop; each row is checked
\* against the end of the region as the loop reaches it.
RECURSIVE EraseRows_latecheck(_, _, _, _, _, _)
EraseRows_latecheck(c, m, erase_offset, size, env, calls) ==
    IF size = Zero
    THEN [ret |-> 0, mem |-> m, calls |-> calls]
    ELSE IF U32Lt(U32Sub(c.max_addr, erase_offset), U32(c.erase_block_size))
    THEN [ret |-> EINVAL, mem |-> m, calls |-> calls]
    ELSE LET row_len == c.erase_block_size
             row_buf == EraseRowBuf(row_len)
             st == Cy_Flash_WriteRow(c, m, erase_offset, row_buf, Len(calls) + 1, env)
             calls2 == Append(calls, Invocation(erase_offset, row_buf, 0, st.ok))
         IN  IF ~st.ok
             THEN [ret |-> EIO, mem |-> st.mem, calls |-> calls2]
             ELSE EraseRows_latecheck(c, st.mem, NextRowAddr(erase_offset, row_len),
                                      U32Sub(size, U32(row_len)), env, calls2)

flash_ifx_erase_latecheck(c, m, offset, size, env) ==
    IF IsZeroLen(size) THEN [ret |-> 0, mem |-> m, calls |-> <<>>]
    ELSE IF EraseMisaligned(c, offset, size) THEN [ret |-> EINVAL, mem |-> m, calls |-> <<>>]
    ELSE IF EraseOffsetRejected(c, offset) THEN [ret |-> EINVAL, mem |-> m, calls |-> <<>>]
    ELSE EraseRows_latecheck(c, m, U32Add(c.base_addr, OffToU32(offset)), size, env, <<>>)

flash_ifx_erase(c, m, offset, size, env) ==
    IF IsZeroLen(size) THEN [ret |-> 0, mem |-> m, calls |-> <<>>]
    ELSE IF EraseMisaligned(c, offset, size) THEN [ret |-> EINVAL, mem |-> m, calls |-> <<>>]
    ELSE IF EraseOffsetRejected(c, offset) THEN [ret |-> EINVAL, mem |-> m, calls |-> <<>>]
    ELSE LET erase_offset == U32Add(c.base_addr, OffToU32(offset))
         IN  IF EraseLenBeyond(c, erase_offset, size)
             THEN [ret |-> EINVAL, mem |-> m, calls |-> <<>>]
             ELSE EraseRows(c, m, erase_offset, size, env, <<>>)

(***************************************************************************)
(* The callers of the driver API: the requests the model makes.            *)
(***************************************************************************)
Offsets == {-4, -1, 0, 2, 4, 8, 16, 2147483647}

\* 0, an unaligned length, up to MaxRows write rows (4 bytes), up to MaxRows
\* blocks of the larger erase block size (8 bytes), and 2^32 - 4.
Lens ==
    {U32(0), U32(1)} \cup {U32(4 * k) : k \in 1 .. MaxRows}
        \cup {U32(8 * k) : k \in 1 .. MaxRows} \cup {<<65535, 65532>>}

\* The bytes 0xA0, 0xA1, ... at each alignment of the source pointer.
Sources == [seed : {160}, step : {1}, align : 0 .. 3]

NoSrc == [seed |-> 0, step |-> 0, align |-> 0]

\* The caller's read buffer before a read: as long as the region, every
\* byte 0xEE.
OutInit(c) == [k \in 1 .. RegionSize(c) |-> 238]

NoCall == [op |-> "none"]

\* The part of a completed call that the next call's claims refer to: a
\* write or an erase of at least one row that returned 0, with its range
\* and the bytes of its buffer (not the alignment of the pointer).
Summary(l) ==
    IF l.op \in {"write", "erase"} /\ l.ret = 0 /\ l.len # Zero
    THEN [op |-> l.op, offset |-> l.offset, len |-> l.len,
          src |-> [l.src EXCEPT !.align = 0]]
    ELSE NoCall

\* A failure plan is told apart from NoFail only when its failing invocation
\* is made.
PlanTakesEffect(env, calls) == env.failAt = 0 \/ env.failAt = Len(calls)

Init ==
    /\ cfg \in ifx_flash_config
    /\ mem = InitMem(cfg)
    /\ last = NoCall
    /\ prev = NoCall

Write ==
    /\ last = NoCall
    /\ \E offset \in Offsets, len \in Lens, src \in Sources, env \in FailPlans :
          LET r == flash_ifx_write(cfg, mem, offset, src, len, env)
          IN  /\ PlanTakesEffect(env, r.calls)
              /\ mem' = r.mem
              /\ last' = [op |-> "write", offset |-> offset, len |-> len, src |-> src,
                          env |-> env, ret |-> r.ret, calls |-> r.calls, mem0 |-> mem,
                          out0 |-> <<>>, out |-> <<>>]
    /\ UNCHANGED <<cfg, prev>>

Read ==
    /\ last = NoCall
    /\ \E offset \in Offsets, len \in Lens :
          LET r == flash_ifx_read(cfg, mem, offset, OutInit(cfg), len)
          IN  last' = [op |-> "read", offset |-> offset, len |-> len, src |-> NoSrc,
                       env |-> NoFail, ret |-> r.ret, calls |-> <<>>, mem0 |-> mem,
                       out0 |-> OutInit(cfg), out |-> r.out]
    /\ UNCHANGED <<cfg, mem, prev>>

Erase ==
    /\ last = NoCall
    /\ \E offset \in Offsets, size \in Lens, env \in FailPlans :
          LET r == flash_ifx_erase(cfg, mem, offset, size, env)
          IN  /\ PlanTakesEffect(env, r.calls)
              /\ mem' = r.mem
              /\ last' = [op |-> "erase", offset |-> offset, len |-> size, src |-> NoSrc,
                          env |-> env, ret |-> r.ret, calls |-> r.calls, mem0 |-> mem,
                          out0 |-> <<>>, out |-> <<>>]
    /\ UNCHANGED <<cfg, prev>>

\* The call has returned to its caller, who may make the next one.
Return ==
    /\ last # NoCall
    /\ prev' = Summary(last)
    /\ last' = NoCall
    /\ UNCHANGED <<cfg, mem>>

Next == Write \/ Read \/ Erase \/ Return

Spec == Init /\ [][Next]_vars

(***************************************************************************)
(* Vocabulary of the properties.                                           *)
(***************************************************************************)
\* The block size of an operation: write_block_size or erase_block_size.
BlockSize(c, op) == IF op = "erase" THEN c.erase_block_size ELSE c.write_block_size

\* A length below 2^31 as a number.
LenNat(len) == len[1] * Half + len[2]

\* offset + len > S over the integers, for 0 <= S < 2^31, without leaving
\* the 32-bit range of the model checker's integers.
SumExceeds(offset, len, S) ==
    IF len[1] >= 32768
    THEN \/ offset >= 0
         \/ offset + ((len[1] - 32768) * Half + len[2]) > (S - 2147483647) - 1
    ELSE IF offset < 0
         THEN offset + LenNat(len) > S
         ELSE LenNat(len) > S - offset

\* offset or len is not a multiple of B, over the integers.
NotMultiple(offset, len, B) == offset % B # 0 \/ U32Mod(len, B) # 0

\* The row [a, a + row_len) lies in the region: base_addr <= a and
\* a + row_len <= max_addr, with a + row_len not wrapping; the second
\* conjunct is stated on the distances from base_addr.
RowInRegion(c, a, row_len) ==
    LET span == U32Sub(c.max_addr, c.base_addr)
        rel == U32Sub(a, c.base_addr)
        end == U32Add(a, U32(row_len))
    IN  /\ ~U32Lt(a, c.base_addr)
        /\ ~U32Lt(span, rel)
        /\ ~U32Lt(U32Sub(span, rel), U32(row_len))
        /\ U32Lt(a, end)
        /\ ~U32Lt(c.max_addr, end)

\* The bytes of the region from index lo up to, not including, index hi are
\* as they were before the call.
Untouched(lo, hi) ==
    \A i \in DOMAIN mem : (lo <= i /\ i < hi) => mem[i] = last.mem0[i]

\* The byte the call was to leave at byte i of its range.
NewByte(l, i) == IF l.op = "erase" THEN erase_value ELSE SrcByte(l.src, i)

(***************************************************************************)
(* C1.  Every invocation of Cy_Flash_WriteRow by a write or an erase gets  *)
(* an address A with base_addr <= A and A + row_len <= max_addr, whatever  *)
(* the offset and the length of the call, in every region that builds      *)
(* (max_addr > base_addr as 32-bit values), the highest one included.      *)
(***************************************************************************)
C1_PrimitiveInRegion ==
    last.op \in {"write", "erase"} =>
        \A k \in 1 .. Len(last.calls) :
            RowInRegion(cfg, last.calls[k].addr, BlockSize(cfg, last.op))

\* A two-row write into the region [0xFFFFFFF4, 0xFFFFFFFC): the second row
\* is the last row of the region.
C1_Witness ==
    /\ last.op = "write"
    /\ cfg.max_addr = <<65535, 65532>>
    /\ last.ret = 0
    /\ Len(last.calls) = 2
    /\ last.calls[2].addr = <<65535, 65528>>

(***************************************************************************)
(* C2.  As stated: a read, write or erase with offset < 0 returns -EINVAL  *)
(* whatever the length.                                                    *)
(***************************************************************************)
C2_NegativeOffsetAnyLength ==
    (last.op # "none" /\ last.offset < 0) => last.ret = EINVAL

(***************************************************************************)
(* C2, amended.  A read, write or erase with offset < 0 and a length other *)
(* than zero returns -EINVAL (with length zero it returns 0).              *)
(***************************************************************************)
C2_NegativeOffsetRejected ==
    (last.op # "none" /\ last.offset < 0 /\ last.len # Zero) => last.ret = EINVAL

\* An erase of one block at the block-aligned negative offset -4.
C2_Witness ==
    /\ last.op = "erase"
    /\ last.offset = -4
    /\ last.len = U32(cfg.erase_block_size)
    /\ last.ret = EINVAL

(***************************************************************************)
(* C3.  As stated: for a region of size S, a read, write or erase with     *)
(* offset + length > S returns -EINVAL.                                    *)
(***************************************************************************)
C3_OutOfRangeAnyLength ==
    (last.op # "none" /\ SumExceeds(last.offset, last.len, RegionSize(cfg)))
        => last.ret = EINVAL

(***************************************************************************)
(* C3, amended.  For a region of size S, a read, write or erase with       *)
(* length > 0 and offset + length > S returns -EINVAL, the case offset = S *)
(* with length 1 included (with length zero it returns 0).                 *)
(***************************************************************************)
C3_OutOfRangeRejected ==
    (/\ last.op # "none"
     /\ last.len # Zero
     /\ SumExceeds(last.offset, last.len, RegionSize(cfg)))
        => last.ret = EINVAL

\* The boundary case: a read of one byte at offset S.
C3_Witness ==
    /\ last.op = "read"
    /\ last.offset = RegionSize(cfg)
    /\ last.len = U32(1)
    /\ last.ret = EINVAL

(***************************************************************************)
(* C4.  As stated: a write or erase whose offset or length is not a        *)
(* multiple of its block size returns -EINVAL; a read inside the region    *)
(* returns 0 whatever its alignment.                                       *)
(***************************************************************************)
C4_AlignmentAnyLength ==
    /\ (/\ last.op \in {"write", "erase"}
        /\ NotMultiple(last.offset, last.len, BlockSize(cfg, last.op)))
           => last.ret = EINVAL
    /\ (/\ last.op = "read"
        /\ last.offset >= 0
        /\ ~SumExceeds(last.offset, last.len, RegionSize(cfg)))
           => last.ret = 0

(***************************************************************************)
(* C4, amended.  A write or erase of length > 0 whose offset or length is  *)
(* not a multiple of its block size returns -EINVAL, also when the request *)
(* lies inside the region; a read inside the region (0 <= offset and       *)
(* offset + length <= S) returns 0 whatever its alignment.                 *)
(***************************************************************************)
C4_AlignmentEnforced ==
    /\ (/\ last.op \in {"write", "erase"}
        /\ last.len # Zero
        /\ NotMultiple(last.offset, last.len, BlockSize(cfg, last.op)))
           => last.ret = EINVAL
    /\ (/\ last.op = "read"
        /\ last.offset >= 0
        /\ ~SumExceeds(last.offset, last.len, RegionSize(cfg)))
           => last.ret = 0

\* A write of one row at offset 2, inside the region, is rejected.
C4_Witness ==
    /\ last.op = "write"
    /\ last.offset = 2
    /\ last.len = U32(cfg.write_block_size)
    /\ ~SumExceeds(last.offset, last.len, RegionSize(cfg))
    /\ last.ret = EINVAL

(***************************************************************************)
(* C5.  When the primitive fails on the N-th row of a write or an erase,   *)
(* the call returns -EIO, the primitive was invoked exactly N times, at    *)
(* the addresses of rows 1..N in increasing order, rows 1..N-1 (each       *)
(* row_len bytes: write_block_size or erase_block_size) hold the new data, *)
(* and the rows after row N keep their previous contents.                  *)
(***************************************************************************)
C5_FailFast ==
    last.op \in {"write", "erase"} =>
        \A n \in 1 .. Len(last.calls) :
            ~last.calls[n].ok =>
                LET row_len == BlockSize(cfg, last.op)
                IN  /\ last.ret = EIO
                    /\ Len(last.calls) = n
                    /\ \A k \in 1 .. n :
                          last.calls[k].addr =
                              U32Add(cfg.base_addr, U32(last.offset + (k - 1) * row_len))
                    /\ \A i \in 0 .. (n - 1) * row_len - 1 :
                          mem[last.offset + i] = NewByte(last, i)
                    /\ Untouched(last.offset + n * row_len, RegionSize(cfg))

(***************************************************************************)
(* C6.  A write of length > 0 at a block-aligned offset inside the region  *)
(* returns 0 when every invocation of the primitive succeeds, and a read   *)
(* of the same offset and length that follows a write that returned 0      *)
(* returns 0 and the bytes of the written buffer, whatever the flash held  *)
(* before the write.                                                       *)
(***************************************************************************)
C6_RoundTrip ==
    /\ (/\ last.op = "write"
        /\ last.len # Zero
        /\ last.offset >= 0
        /\ ~NotMultiple(last.offset, last.len, cfg.write_block_size)
        /\ ~SumExceeds(last.offset, last.len, RegionSize(cfg))
        /\ last.env = NoFail)
           => last.ret = 0
    /\ (/\ last.op = "read"
        /\ prev.op = "write"
        /\ last.offset = prev.offset
        /\ last.len = prev.len)
           => /\ last.ret = 0
              /\ \A k \in 1 .. LenNat(last.len) : last.out[k] = SrcByte(prev.src, k - 1)

\* A read following a two-row write into a flash that earlier calls had
\* already changed.
C6_Witness ==
    /\ last.op = "read"
    /\ prev.op = "write"
    /\ last.offset = prev.offset
    /\ last.len = prev.len
    /\ prev.len = U32(2 * cfg.write_block_size)
    /\ \E i \in DOMAIN mem : i < prev.offset /\ mem[i] # InitMem(cfg)[i]

(***************************************************************************)
(* C7.  Erasing one erase block at an erase-block-aligned offset inside    *)
(* the region and then reading that range back yields 0xFF in every byte.  *)
(***************************************************************************)
C7_EraseFills ==
    (/\ last.op = "read"
     /\ prev.op = "erase"
     /\ prev.len = U32(cfg.erase_block_size)
     /\ last.offset = prev.offset
     /\ last.len = prev.len)
        => /\ last.ret = 0
           /\ \A k \in 1 .. cfg.erase_block_size : last.out[k] = erase_value

(***************************************************************************)
(* C8.  A write, read or erase of length zero returns 0, makes no call to  *)
(* the primitive and leaves the flash and the caller's buffer as they      *)
(* were, at every offset (the valid ones included).                        *)
(***************************************************************************)
C8_ZeroLengthNoOp ==
    (last.op # "none" /\ last.len = Zero)
        => /\ last.ret = 0
           /\ last.calls = <<>>
           /\ mem = last.mem0
           /\ last.out = last.out0

\* A zero-length erase at the valid offset 4.
C8_Witness ==
    /\ last.op = "erase"
    /\ last.offset = 4
    /\ last.len = Zero
    /\ last.ret = 0

(***************************************************************************)
(* C9.  A write from a source pointer that is 1, 2 or 3 bytes off a 4-byte *)
(* boundary makes the same primitive calls (addresses, row data, results), *)
(* leaves the same flash contents and returns the same code as the write   *)
(* of the same bytes from a 4-byte-aligned source, and no write hands the  *)
(* primitive a misaligned buffer.                                          *)
(***************************************************************************)
C9_StagingEquivalence ==
    last.op = "write" =>
        LET aligned == flash_ifx_write(cfg, last.mem0, last.offset,
                                       [last.src EXCEPT !.align = 0], last.len, last.env)
        IN  /\ last.ret = aligned.ret
            /\ mem = aligned.mem
            /\ last.calls = aligned.calls
            /\ \A k \in 1 .. Len(last.calls) : last.calls[k].align = 0

\* A two-row write from a source one byte off a 4-byte boundary.
C9_Witness ==
    /\ last.op = "write"
    /\ last.src.align = 1
    /\ last.ret = 0
    /\ Len(last.calls) = 2

(***************************************************************************)
(* C10.  A read, write or erase that returns -EINVAL has made no call to   *)
(* the primitive and copied no byte: the flash and the caller's read       *)
(* buffer are as before the call.                                          *)
(***************************************************************************)
C10_RejectBeforeHardware ==
    (last.op # "none" /\ last.ret = EINVAL)
        => /\ last.calls = <<>>
           /\ mem = last.mem0
           /\ last.out = last.out0

\* An aligned erase of two blocks whose first block is the last one of the
\* region is rejected.
C10_Witness ==
    /\ last.op = "erase"
    /\ last.offset = RegionSize(cfg) - cfg.erase_block_size
    /\ last.len = U32(2 * cfg.erase_block_size)
    /\ last.ret = EINVAL

====
